---- MODULE Spec2Model ----
(* A model of scripts/gen_integration_tests.py: the generator that reads the  *)
(* stdlib definition files, extracts the embedded module source, and writes   *)
(* one smoke-test document per export and per domain literal.                 *)
(*                                                                            *)
(* Texts are strings; a character is a string of length one. Offsets are      *)
(* 0-based and slices half-open, as in the Python source.                     *)
EXTENDS Integers, Sequences, FiniteSets, TLC

VARIABLES
  dir,        \* the stdlib directory: whether it exists, file name -> file text
  tree,       \* the output tree: files (path -> content) and dirs
  tree0,      \* the output tree when the current run of main started
  tree1,      \* the output tree when the first run of main ended
  run,        \* which run of main this is
  pc,         \* position of main / of the function under test
  queue,      \* sorted file names main still has to visit
  ctx,        \* the file being processed: rs, mod, aivi_src, class_defs, ctor_exports
  todo,       \* exports of the current file still to be handled
  doms,       \* domains of the current file still to be handled
  generated,  \* main's counter
  stdout,     \* lines printed
  err,        \* the exception that ended the run, or ""
  ev,         \* what the last step of main did (observation of write calls)
  inp,        \* input of the function under test (function specifications)
  res,        \* its result
  written     \* the write calls of the current run, in order: file, path, text

vars == <<dir, tree, tree0, tree1, run, pc, queue, ctx, todo, doms, generated,
          stdout, err, ev, inp, res, written>>

-----------------------------------------------------------------------------
(* Characters and strings                                                     *)

Upper == {"A","B","C","D","E","F","G","H","I","J","K","L","M",
          "N","O","P","Q","R","S","T","U","V","W","X","Y","Z"}
Lower == {"a","b","c","d","e","f","g","h","i","j","k","l","m",
          "n","o","p","q","r","s","t","u","v","w","x","y","z"}
Digit == {"0","1","2","3","4","5","6","7","8","9"}
Letter == Upper \cup Lower
Word == Letter \cup Digit \cup {"_"}
\* The characters str.strip, str.split and \s take for whitespace among the
\* code points below 256: tab, line feed, vertical tab, form feed, carriage
\* return, the separators 0x1c..0x1f, the space, next line (0x85) and the
\* no-break space (0xa0); and those at which str.splitlines cuts.
Space == {" ", "\t", "\n", "\r", "\f", "", "", "", "", "", "", " "}
LineBreak == {"\n", "\r", "\f", "", "", "", "", ""}

\* The characters above the 7-bit range that \w and \b take for word
\* characters: the letters and numeric characters of 0x80..0xff.
Latin1Word ==
  {"ª", "²", "³", "µ", "¹", "º", "¼", "½", "¾", "À", "Á", "Â", "Ã", "Ä", "Å", "Æ", "Ç", "È", "É", "Ê", "Ë", "Ì", "Í", "Î",
   "Ï", "Ð", "Ñ", "Ò", "Ó", "Ô", "Õ", "Ö", "Ø", "Ù", "Ú", "Û", "Ü", "Ý", "Þ", "ß", "à", "á", "â", "ã", "ä", "å", "æ", "ç",
   "è", "é", "ê", "ë", "ì", "í", "î", "ï", "ð", "ñ", "ò", "ó", "ô", "õ", "ö", "ø", "ù", "ú", "û", "ü", "ý", "þ", "ÿ"}
WordChar == Word \cup Latin1Word

\* \b at offset i of s: a word character on exactly one side
Boundary(s, i) ==
  ((i > 0 /\ SubSeq(s, i, i) \in WordChar) # (i < Len(s) /\ SubSeq(s, i + 1, i + 1) \in WordChar))

\* The characters of the model's texts in code-point order: the code points
\* 1..255 but for the grave accent, which a string of this notation cannot
\* hold.
Latin1 == "\t\n\f\r !\"#$%&'()*+,-./0123456789:;<=>?@ABCDEFGHIJKLMNOPQRSTUVWXYZ[\\]^_abcdefghijklmnopqrstuvwxyz{|}~ ¡¢£¤¥¦§¨©ª«¬­®¯°±²³´µ¶·¸¹º»¼½¾¿ÀÁÂÃÄÅÆÇÈÉÊËÌÍÎÏÐÑÒÓÔÕÖ×ØÙÚÛÜÝÞßàáâãäåæçèéêëìíîïðñòóôõö÷øùúûüýþÿ"

Ch(s, i) == SubSeq(s, i + 1, i + 1)
Slice(s, a, b) == IF a >= b THEN "" ELSE SubSeq(s, a + 1, b)
From(s, a) == Slice(s, a, Len(s))
Ord(c) == CHOOSE i \in 1..Len(Latin1) : SubSeq(Latin1, i, i) = c

MinOf(S) == CHOOSE x \in S : \A y \in S : x <= y
MaxOf(S) == 0 - MinOf({0 - x : x \in S})

StartsWith(s, p) == Len(s) >= Len(p) /\ Slice(s, 0, Len(p)) = p
EndsWith(s, p) == Len(s) >= Len(p) /\ From(s, Len(s) - Len(p)) = p
StartsAt(s, i, p) == i + Len(p) <= Len(s) /\ Slice(s, i, i + Len(p)) = p

\* str.find(sub, start)
Find(s, sub, start) ==
  LET hits == {i \in start..(Len(s) - Len(sub)) : Slice(s, i, i + Len(sub)) = sub}
  IN IF hits = {} THEN -1 ELSE MinOf(hits)

Contains(s, sub) == Find(s, sub, 0) >= 0

\* The end of the longest run of characters of S that starts at offset i.
Span(s, i, S) ==
  LET out == {j \in i..(Len(s) - 1) : Ch(s, j) \notin S}
  IN IF out = {} THEN Len(s) ELSE MinOf(out)

\* The end of the longest run of characters outside S that starts at offset i.
SpanNot(s, i, S) ==
  LET in == {j \in i..(Len(s) - 1) : Ch(s, j) \in S}
  IN IF in = {} THEN Len(s) ELSE MinOf(in)

\* The start of the longest run of characters of S that ends at offset j.
SpanBack(s, j, S) ==
  LET out == {k \in 0..(j - 1) : Ch(s, k) \notin S}
  IN IF out = {} THEN 0 ELSE MaxOf(out) + 1

LStrip(s, S) == From(s, Span(s, 0, S))
RStrip(s, S) == Slice(s, 0, SpanBack(s, Len(s), S))
\* str.strip()
Strip(s) == RStrip(LStrip(s, Space), Space)

\* str.split(sep)
RECURSIVE Split(_, _)
Split(s, sep) ==
  LET k == Find(s, sep, 0)
  IN IF k < 0 THEN <<s>>
     ELSE <<Slice(s, 0, k)>> \o Split(From(s, k + Len(sep)), sep)

\* str.split(): fields separated by runs of whitespace
RECURSIVE SplitWs(_)
SplitWs(s) ==
  LET a == Span(s, 0, Space)
      b == SpanNot(s, a, Space)
  IN IF a = Len(s) THEN <<>>
     ELSE <<Slice(s, a, b)>> \o SplitWs(From(s, b))

\* str.splitlines()
RECURSIVE SplitLines(_)
SplitLines(s) ==
  IF s = "" THEN <<>>
  ELSE LET k == SpanNot(s, 0, LineBreak)
           n == IF StartsAt(s, k, "\r\n") THEN k + 2 ELSE k + 1
       IN <<Slice(s, 0, k)>> \o SplitLines(From(s, n))

\* sep.join(parts)
RECURSIVE Join(_, _)
Join(parts, sep) ==
  IF parts = <<>> THEN ""
  ELSE IF Len(parts) = 1 THEN parts[1]
  ELSE parts[1] \o sep \o Join(Tail(parts), sep)

\* str(n) for n >= 0
RECURSIVE IntToStr(_)
IntToStr(n) ==
  IF n < 10 THEN SubSeq("0123456789", n + 1, n + 1)
  ELSE IntToStr(n \div 10) \o SubSeq("0123456789", (n % 10) + 1, (n % 10) + 1)

\* a < b for strings, by code point
RECURSIVE StrLess(_, _)
StrLess(a, b) ==
  IF b = "" THEN FALSE
  ELSE IF a = "" THEN TRUE
  ELSE IF Ch(a, 0) = Ch(b, 0) THEN StrLess(From(a, 1), From(b, 1))
  ELSE Ord(Ch(a, 0)) < Ord(Ch(b, 0))

\* sorted(S)
RECURSIVE Sorted(_)
Sorted(S) ==
  IF S = {} THEN <<>>
  ELSE LET m == CHOOSE x \in S : \A y \in S \ {x} : StrLess(x, y)
       IN <<m>> \o Sorted(S \ {m})

Range(f) == {f[i] : i \in DOMAIN f}

-----------------------------------------------------------------------------
(* SourceExtractor                                                            *)

\* MODULE_NAME:\s*&str\s*=\s*"([^"]+)" matched at offset p: the group, or none
ModuleNameAt(t, p) ==
  LET b == Span(t, p + Len("MODULE_NAME:"), Space)
      d == Span(t, b + Len("&str"), Space)
      f == Span(t, d + 1, Space)
      h == SpanNot(t, f + 1, {"\""})
  IN IF /\ StartsAt(t, p, "MODULE_NAME:")
        /\ StartsAt(t, b, "&str")
        /\ StartsAt(t, d, "=")
        /\ StartsAt(t, f, "\"")
        /\ h > f + 1
        /\ h < Len(t)
     THEN [ok |-> TRUE, val |-> Slice(t, f + 1, h)]
     ELSE [ok |-> FALSE, val |-> "missing MODULE_NAME"]

\* re.search: the leftmost offset where the pattern matches
parse_module_name(rs_text) ==
  LET hits == {p \in 0..(Len(rs_text) - 1) : ModuleNameAt(rs_text, p).ok}
  IN IF hits = {} THEN [ok |-> FALSE, val |-> "missing MODULE_NAME"]
     ELSE ModuleNameAt(rs_text, MinOf(hits))

SourceMarker == "pub const SOURCE: &str = r#\""
SourceEnd == "\"#;"

\* parse_aivi_source searching the terminator from the start of the text
parse_aivi_source_from_start(rs_text) ==
  LET start == Find(rs_text, SourceMarker, 0)
      from == start + Len(SourceMarker)
      end == Find(rs_text, SourceEnd, 0)
  IN IF start < 0 THEN [ok |-> FALSE, val |-> "missing SOURCE marker"]
     ELSE IF end < 0 THEN [ok |-> FALSE, val |-> "missing SOURCE terminator"]
     ELSE [ok |-> TRUE, val |-> Slice(rs_text, from, end)]

parse_aivi_source(rs_text) ==
  LET start == Find(rs_text, SourceMarker, 0)
      from == start + Len(SourceMarker)
      end == Find(rs_text, SourceEnd, from)
  IN IF start < 0 THEN [ok |-> FALSE, val |-> "missing SOURCE marker"]
     ELSE IF end < 0 THEN [ok |-> FALSE, val |-> "missing SOURCE terminator"]
     ELSE [ok |-> TRUE, val |-> Slice(rs_text, from, end)]

-----------------------------------------------------------------------------
(* DeclarationParser: exports, names, classes, constructors                   *)

\* the non-empty, stripped items of a sequence of texts
RECURSIVE StripNonEmpty(_)
StripNonEmpty(parts) ==
  IF parts = <<>> THEN <<>>
  ELSE (IF Strip(parts[1]) = "" THEN <<>> ELSE <<Strip(parts[1])>>)
       \o StripNonEmpty(Tail(parts))

ExportsOfLine(line) ==
  LET s == Strip(line)
      rest == Strip(Split(From(s, Len("export ")), "//")[1])
  IN IF StartsWith(s, "export ") THEN StripNonEmpty(Split(rest, ",")) ELSE <<>>

RECURSIVE ExportsOfLines(_)
ExportsOfLines(lines) ==
  IF lines = <<>> THEN <<>>
  ELSE ExportsOfLine(lines[1]) \o ExportsOfLines(Tail(lines))

\* split_exports keeping only the first occurrence of a name
RECURSIVE Unique(_)
Unique(s) ==
  IF s = <<>> THEN <<>>
  ELSE LET r == Unique(SubSeq(s, 1, Len(s) - 1))
       IN IF s[Len(s)] \in Range(r) THEN r ELSE Append(r, s[Len(s)])
split_exports_unique(aivi_source) == Unique(ExportsOfLines(SplitLines(aivi_source)))

\* split_exports taking the name of every declaration for an export as well
split_exports_declared(aivi_source) ==
  LET lines == SplitLines(aivi_source)
      decls == SelectSeq(lines, LAMBDA l : Contains(l, " = {"))
  IN ExportsOfLines(lines) \o [i \in 1..Len(decls) |-> SplitWs(decls[i])[1]]

split_exports(aivi_source) == ExportsOfLines(SplitLines(aivi_source))

\* "$" also matches before one final line feed
AtEnd(s, i) == i = Len(s) \/ (i = Len(s) - 1 /\ Ch(s, i) = "\n")

is_lower_value(name) ==
  /\ name # ""
  /\ Ch(name, 0) \in Lower
  /\ AtEnd(name, Span(name, 1, Word))

is_upper_name(name) ==
  /\ name # ""
  /\ Ch(name, 0) \in Upper
  /\ AtEnd(name, Span(name, 1, Word))

is_suffix_template(name) ==
  LET d == Span(name, 0, Digit)
  IN /\ d > 0
     /\ d < Len(name)
     /\ Ch(name, d) \in Letter
     /\ AtEnd(name, Span(name, d + 1, Word))

\* re.sub(r"^[0-9]+", "", s)
StripLeadingDigits(s) == From(s, Span(s, 0, Digit))

\* re.sub(r"[^A-Za-z0-9_]", "_", s), by halves
RECURSIVE SubNonWord(_)
SubNonWord(s) ==
  IF s = "" THEN ""
  ELSE IF Len(s) = 1 THEN (IF s \in Word THEN s ELSE "_")
  ELSE SubNonWord(Slice(s, 0, Len(s) \div 2)) \o SubNonWord(From(s, Len(s) \div 2))

\* The characters of s at offsets lo..hi-1 but for each underscore that
\* follows an underscore, by halves.
RECURSIVE CollapseFrom(_, _, _)
CollapseFrom(s, lo, hi) ==
  IF lo >= hi THEN ""
  ELSE IF hi = lo + 1
  THEN (IF Ch(s, lo) = "_" /\ lo > 0 /\ Ch(s, lo - 1) = "_" THEN "" ELSE Ch(s, lo))
  ELSE CollapseFrom(s, lo, (lo + hi) \div 2) \o CollapseFrom(s, (lo + hi) \div 2, hi)

\* re.sub(r"_+", "_", s)
CollapseUnderscores(s) == CollapseFrom(s, 0, Len(s))

\* sanitize_segment without the prefix for a leading digit
sanitize_segment_unprefixed(seg0) ==
  LET seg == LStrip(RStrip(CollapseUnderscores(SubNonWord(Strip(seg0))), {"_"}), {"_"})
  IN IF seg = "" THEN "x" ELSE seg

sanitize_segment(seg0) ==
  LET seg == LStrip(RStrip(CollapseUnderscores(SubNonWord(Strip(seg0))), {"_"}), {"_"})
      seg2 == IF seg = "" THEN "x" ELSE seg
  IN IF Ch(seg2, 0) \in Digit THEN "n_" \o seg2 ELSE seg2

module_segments(module_name) ==
  LET parts == Split(module_name, ".")
  IN [i \in 1..Len(parts) |-> sanitize_segment(parts[i])]

\* the class name a line declares: ^\s*class\s+([A-Z][A-Za-z0-9_]*)\b
ClassOfLine(line) ==
  LET a == Span(line, 0, Space)
      b == a + Len("class")
      c == Span(line, b, Space)
      d == Span(line, c, Word)
  IN IF /\ StartsAt(line, a, "class")
        /\ c > b
        /\ c < Len(line)
        /\ Ch(line, c) \in Upper
        /\ Boundary(line, d)
     THEN {Slice(line, c, d)}
     ELSE {}

\* parse_class_defs with its pattern's \s and \b escapes doubled, as they are in
\* parse_ctor_exports: no class line without literal backslashes matches
parse_class_defs_escaped(aivi_source) ==
  UNION {IF Contains(l, "\\") THEN ClassOfLine(l) ELSE {}
         : l \in Range(SplitLines(aivi_source))}

parse_class_defs(aivi_source) ==
  UNION {ClassOfLine(l) : l \in Range(SplitLines(aivi_source))}

\* the first field of each "|" alternative, when it is an upper name
CtorHeads(rhs) ==
  LET parts == Split(rhs, "|")
  IN {SplitWs(parts[i])[1] :
        i \in {j \in 1..Len(parts) :
                 /\ SplitWs(parts[j]) # <<>>
                 /\ is_upper_name(SplitWs(parts[j])[1])}}

\* The pattern as written in the raw string, ^([A-Z][A-Za-z0-9_]*)\\b.*=\\s*(.+)$ :
\* the name, a backslash, "b", anything, "=", a backslash, any number of "s",
\* then the non-empty rest of the line. Group 2, or none.
CtorRhs(s) ==
  LET d == Span(s, 0, Word)
      \* greedy ".*": the last "=\" that leaves a character for "(.+)"
      good == {q \in (d + 2)..(Len(s) - 3) : StartsAt(s, q, "=\\")}
      q == MaxOf(good)
      k == Span(s, q + 2, {"s"})
  IN IF /\ s # ""
        /\ Ch(s, 0) \in Upper
        /\ StartsAt(s, d, "\\b")
        /\ good # {}
     THEN [ok |-> TRUE, val |-> IF k < Len(s) THEN From(s, k) ELSE From(s, k - 1)]
     ELSE [ok |-> FALSE, val |-> ""]

CtorsOfLine(line) ==
  LET s == Strip(line)
  IN IF s = "" \/ StartsWith(s, "//") THEN {}
     ELSE IF ~Contains(s, "|") \/ ~Contains(s, "=") THEN {}
     ELSE IF ~CtorRhs(s).ok THEN {}
     ELSE CtorHeads(CtorRhs(s).val)

parse_ctor_exports(aivi_source) ==
  UNION {CtorsOfLine(l) : l \in Range(SplitLines(aivi_source))}

-----------------------------------------------------------------------------
(* DeclarationParser: record shapes. A dict is a sequence of <<key, value>>   *)
(* pairs in insertion order.                                                  *)

DictHas(d, k) == \E i \in 1..Len(d) : d[i][1] = k
DictGet(d, k) == d[CHOOSE i \in 1..Len(d) : d[i][1] = k][2]
\* d[k] = v: a present key keeps its position
DictSet(d, k, v) ==
  IF DictHas(d, k)
  THEN [i \in 1..Len(d) |-> IF d[i][1] = k THEN <<k, v>> ELSE d[i]]
  ELSE Append(d, <<k, v>>)

\* ^([a-z][A-Za-z0-9_]*)\s*:\s*(.+)$ on a stripped item: <<field, type>>, or none
FieldOfItem(item) ==
  LET d == Span(item, 0, Word)
      c == Span(item, d, Space)
  IN IF /\ item # ""
        /\ Ch(item, 0) \in Lower
        /\ StartsAt(item, c, ":")
        /\ c + 1 < Len(item)
     THEN <<<<Slice(item, 0, d), Strip(From(item, c + 1))>>>>
     ELSE <<>>

RECURSIVE FieldsOfParts(_, _)
FieldsOfParts(parts, fields) ==
  IF parts = <<>> THEN fields
  ELSE LET fm == FieldOfItem(Strip(parts[1]))
       IN FieldsOfParts(Tail(parts),
            IF fm = <<>> THEN fields ELSE DictSet(fields, fm[1][1], fm[1][2]))

\* ^\s*([A-Z][A-Za-z0-9_]*)\b[^=]*=\s*\{(.*)\}\s*$ : name and brace body, or none
RecordOfLine(line) ==
  LET a == Span(line, 0, Space)
      d == Span(line, a, Word)
      e == SpanNot(line, d, {"="})
      f == Span(line, e + 1, Space)
      z == SpanBack(line, Len(line), Space) - 1
  IN IF /\ a < Len(line)
        /\ Ch(line, a) \in Upper
        /\ Boundary(line, d)
        /\ e < Len(line)
        /\ StartsAt(line, f, "{")
        /\ z > f
        /\ Ch(line, z) = "}"
     THEN [ok |-> TRUE, name |-> Slice(line, a, d), body |-> Strip(Slice(line, f + 1, z))]
     ELSE [ok |-> FALSE, name |-> "", body |-> ""]

RECURSIVE RecordsOfLines(_, _)
RecordsOfLines(lines, out) ==
  IF lines = <<>> THEN out
  ELSE LET m == RecordOfLine(lines[1])
           fields == IF m.body = "" THEN <<>>
                     ELSE FieldsOfParts(Split(m.body, ","), <<>>)
       IN RecordsOfLines(Tail(lines),
            IF m.ok THEN DictSet(out, m.name, fields) ELSE out)

parse_record_type_aliases(aivi_source) ==
  RecordsOfLines(SplitLines(aivi_source), <<>>)

-----------------------------------------------------------------------------
(* ExpressionSynthesizer                                                      *)

\* the scan of _split_top_level_commas from offset i on
RECURSIVE SplitScan(_, _, _, _, _)
SplitScan(text, i, depth, cur, parts) ==
  IF i = Len(text)
  THEN (IF Strip(cur) # "" THEN Append(parts, Strip(cur)) ELSE parts)
  ELSE LET ch == Ch(text, i)
           dep == IF ch \in {"(", "[", "{"} THEN depth + 1
                  ELSE IF ch \in {")", "]", "}"} THEN (IF depth > 0 THEN depth - 1 ELSE 0)
                  ELSE depth
       IN IF ch = "," /\ dep = 0
          THEN SplitScan(text, i + 1, dep, "", Append(parts, Strip(cur)))
          ELSE SplitScan(text, i + 1, dep, cur \o ch, parts)

_split_top_level_commas(text) == SplitScan(text, 0, 0, "", <<>>)

\* What a call yields: a text, None, or an exception.
Str(s) == [kind |-> "str", val |-> s]
None == [kind |-> "none", val |-> ""]
Raise(e) == [kind |-> "raise", val |-> e]

\* expr or 'Unit'
OrUnit(r) == IF r.kind = "str" /\ r.val # "" THEN r.val ELSE "Unit"

\* The interpreter's limit on nested calls (sys.getrecursionlimit()): deeper
\* calls raise RecursionError.
RecursionLimit == 1000

\* The frames in use when sample_expr_for_type is first called: here the
\* call is made from module level.
CallerFrames == 1

\* Whether the call for the normalized type ty is one of the tuple rule: its
\* nested calls are made from a list comprehension, which has a frame of its
\* own.
IsTupleCall(ty, record_types) ==
  ~DictHas(record_types, ty) /\ StartsWith(ty, "(") /\ EndsWith(ty, ")")

\* The frames in use when a call is made with the calls for the types of
\* `stack` in progress: the caller's, one per call, one per list comprehension.
FramesInUse(stack, record_types) ==
  CallerFrames + Len(stack)
    + Cardinality({i \in 1..Len(stack) : IsTupleCall(stack[i], record_types)})

\* What the call of re.sub on line 262 depends on besides its arguments: whether
\* the pattern ^[0-9]+ is in re's cache of compiled patterns, and how many
\* calls of re._compile the interpreter has run so far (counted up to
\* SpecializedAfter; any pattern counts).
ReState(cached, calls) == [cached |-> cached, calls |-> calls]

\* The calls of re._compile made while the imports of lines 4-6 are loaded
\* (two by tokenize, one by dataclasses, one by urllib.parse).
ImportCalls == 4

\* From the call after this many, re._compile runs specialized bytecode, whose
\* isinstance test takes one frame less.
SpecializedAfter == 7

\* The interpreter that has imported the script and done nothing else.
Fresh == ReState(FALSE, ImportCalls)

\* The frames re.sub needs below the frame that calls it: 8 with the pattern
\* to compile, 4 with the pattern cached, 3 with the pattern cached and
\* re._compile specialized.
ReSubFrames(st) ==
  IF ~st.cached THEN 8
  ELSE IF st.calls >= SpecializedAfter THEN 3
  ELSE 4

\* The frames the call for ty needs apart from its nested calls: its own and
\* one for the calls of its first line; one more where it calls
\* _split_top_level_commas; those of re.sub where it reaches line 262.
OwnFrames(ty, record_types, domain_templates, st) ==
  IF DictHas(record_types, ty) THEN 2
  ELSE IF ty = "Delta" /\ domain_templates # <<>> THEN 2 + ReSubFrames(st)
  ELSE IF /\ StartsWith(ty, "(") /\ EndsWith(ty, ")")
          /\ ~StartsWith(ty, "Option ") /\ ~StartsWith(ty, "List ")
  THEN 3
  ELSE 2

\* Whether the call for the normalized type ty, made with the calls for the
\* types of `stack` in progress and the interpreter in state st, ends in
\* RecursionError whatever its nested calls do: the frames it needs exceed the
\* limit, or ty is the type of a call in progress. In the second case the call
\* makes the same calls as that one did, so the nesting repeats until the
\* limit is reached.
Overflows(ty, stack, record_types, domain_templates, st) ==
  \/ FramesInUse(stack, record_types)
       + OwnFrames(ty, record_types, domain_templates, st) > RecursionLimit
  \/ \E i \in 1..Len(stack) : stack[i] = ty

Primitives ==
  <<<<"Int", "1">>, <<"Float", "1.0">>, <<"Bool", "True">>, <<"Text", "\"x\"">>,
    <<"Char", "'x'">>, <<"Unit", "Unit">>, <<"Bytes", "bytes.empty">>>>

\* What a call that returns yields, and the interpreter it leaves. A call that
\* raises yields Raise(e) alone: the exception leaves every call in progress
\* (lines 205-268 catch nothing), so no step of sample_expr_for_type runs in
\* the interpreter it leaves.
Leaving(r, st) == [kind |-> r.kind, val |-> r.val, st |-> st]
Outcome(r) == [kind |-> r.kind, val |-> r.val]

RECURSIVE SampleExprAt(_, _, _, _, _, _)
RECURSIVE SampleExprs(_, _, _, _, _, _, _)

\* The nested calls for the types tys, made in order from the one after the
\* Len(done) already made: each starts with the interpreter as the one before
\* left it, and the first that raises ends them. `done` holds `expr or 'Unit'`
\* of each call that returned; st is the interpreter the last of them left.
SampleExprs(tys, record_types, domain_templates, domain_named_literals, stack, st, done) ==
  IF Len(done) = Len(tys) THEN [kind |-> "str", vals |-> done, st |-> st]
  ELSE LET r == SampleExprAt(tys[Len(done) + 1], record_types, domain_templates,
                             domain_named_literals, stack, st)
       IN IF r.kind = "raise" THEN [kind |-> "raise", vals |-> done]
          ELSE SampleExprs(tys, record_types, domain_templates, domain_named_literals,
                           stack, r.st, Append(done, OrUnit(r)))

\* sample_expr_for_type called with the calls for the types of `stack` in
\* progress and the interpreter in state st
SampleExprAt(ty0, record_types, domain_templates, domain_named_literals, stack, st) ==
  LET ty == Join(SplitWs(ty0), " ")
      fields == DictGet(record_types, ty)
      parts == SampleExprs([i \in 1..Len(fields) |-> fields[i][2]], record_types,
                           domain_templates, domain_named_literals,
                           Append(stack, ty), st, <<>>)
      items == _split_top_level_commas(Strip(Slice(ty, 1, Len(ty) - 1)))
      exprs == SampleExprs(items, record_types, domain_templates,
                           domain_named_literals, Append(stack, ty), st, <<>>)
  IN IF Overflows(ty, stack, record_types, domain_templates, st)
     THEN Raise("RecursionError")
     ELSE IF DictHas(record_types, ty) THEN
       (IF parts.kind = "raise" THEN Raise("RecursionError")
        ELSE Leaving(Str("{ " \o Join([i \in 1..Len(fields) |->
                                    fields[i][1] \o ": " \o parts.vals[i]], ", ")
                    \o " }"),
                parts.st))
     ELSE IF DictHas(Primitives, ty) THEN Leaving(Str(DictGet(Primitives, ty)), st)
     ELSE IF StartsWith(ty, "Option ") THEN Leaving(Str("None"), st)
     ELSE IF StartsWith(ty, "List ") THEN Leaving(Str("[]"), st)
     ELSE IF StartsWith(ty, "(") /\ EndsWith(ty, ")") /\ Len(items) >= 2 THEN
       (IF exprs.kind = "raise" THEN Raise("RecursionError")
        ELSE Leaving(Str("(" \o Join(exprs.vals, ", ") \o ")"), exprs.st))
     ELSE IF StartsWith(ty, "Map ") THEN Leaving(Str("Map.insert \"a\" 1 Map.empty"), st)
     ELSE IF StartsWith(ty, "Set ") THEN Leaving(Str("Set.insert 1 Set.empty"), st)
     ELSE IF ty = "Delta" THEN
       (IF domain_templates # <<>>
        THEN Leaving(Str("2" \o StripLeadingDigits(domain_templates[1])),
                     ReState(TRUE, IF st.calls < SpecializedAfter THEN st.calls + 1
                                   ELSE st.calls))
        ELSE IF domain_named_literals # <<>>
        THEN Leaving(Str(domain_named_literals[1]), st)
        ELSE Leaving(None, st))
     ELSE Leaving(None, st)

\* sample_expr_for_type called from module level with the interpreter in
\* state st
SampleExprIn(ty, record_types, domain_templates, domain_named_literals, st) ==
  Outcome(SampleExprAt(ty, record_types, domain_templates, domain_named_literals,
                       <<>>, st))

\* sample_expr_for_type called from module level in a fresh interpreter
sample_expr_for_type(ty, record_types, domain_templates, domain_named_literals) ==
  SampleExprIn(ty, record_types, domain_templates, domain_named_literals, Fresh)

-----------------------------------------------------------------------------
(* TestEmitter                                                                *)

OUT == "integration-tests/stdlib"

header(module_name) == "@no_prelude\nmodule " \o module_name \o "\n"
use_select(module, item) == "use " \o module \o " (" \o item \o ")\n"
use_all(module) == "use " \o module \o "\n"
use_testlib == "use aivi.testing (assert)\n"

SmokeSubject == "\n@test\nsmoke = effect {\n  _ <- pure subject\n  _ <- assert True\n}\n"
SmokeRef == "\n@test\nsmoke = effect {\n  _ <- assert True\n}\n"

\* A call of write(path, text).
WriteCall(path, text) == [path |-> path, text |-> text]

\* The write calls basic_export_test makes (at most one). Its type_defs and
\* record_types arguments are not read by its body.
basic_export_test(mod, export_name, ctor_exports) ==
  LET mod_segs == module_segments(mod)
      case == sanitize_segment(export_name)
      test_module == Join(<<"integrationTests", "stdlib">> \o mod_segs \o <<case>>, ".")
      out_path == OUT \o "/" \o Join(mod_segs, "/") \o "/" \o case \o ".aivi"
      body == header(test_module) \o "\nuse aivi\n" \o use_testlib \o "\n" \o use_all(mod)
      suffix == StripLeadingDigits(export_name)
      subject_expr == IF is_suffix_template(export_name)
                      THEN (IF suffix = "dec" THEN "3.14" \o suffix ELSE "2" \o suffix)
                      ELSE export_name
  IN IF StartsWith(export_name, "domain ") THEN <<>>
     ELSE IF is_upper_name(export_name) THEN
       (IF export_name \in ctor_exports
        THEN <<WriteCall(out_path, body \o "\nsubject = " \o export_name \o "\n"
                                        \o SmokeSubject)>>
        ELSE <<WriteCall(out_path, body \o "\nRef = " \o export_name \o "\n"
                                        \o SmokeRef)>>)
     ELSE <<WriteCall(out_path, body \o "\nsubject = " \o subject_expr \o "\n"
                                     \o SmokeSubject)>>

-----------------------------------------------------------------------------
(* DeclarationParser: domain blocks                                           *)

\* ^\s*domain\s+([A-Za-z][A-Za-z0-9_]*)\s+over\s+(.+?)\s*=\s*{\s*$
DomainHeader(line) ==
  LET a == Span(line, 0, Space)
      b == a + Len("domain")
      c == Span(line, b, Space)
      d == Span(line, c, Word)
      e == Span(line, d, Space)
      f == e + Len("over")
      r == RStrip(line, Space)
      r2 == RStrip(Slice(r, 0, Len(r) - 1), Space)
      q == Len(r2) - 1
  IN IF /\ StartsAt(line, a, "domain")
        /\ c > b
        /\ c < Len(line)
        /\ Ch(line, c) \in Letter
        /\ e > d
        /\ StartsAt(line, e, "over")
        /\ EndsWith(r, "{")
        /\ EndsWith(r2, "=")
        /\ q - f >= 2
        /\ Ch(line, f) \in Space
     THEN [ok |-> TRUE, name |-> Slice(line, c, d), carrier |-> Strip(Slice(line, f, q))]
     ELSE [ok |-> FALSE, name |-> "", carrier |-> ""]

\* str.count(c) for a character c
Count(s, c) == Cardinality({i \in 0..(Len(s) - 1) : Ch(s, i) = c})

\* the inner while loop: lines of the block, and the index and depth it ends at
RECURSIVE ScanBlock(_, _, _, _)
ScanBlock(lines, i, brace, block) ==
  IF i < Len(lines) /\ brace > 0
  THEN LET cur == lines[i + 1]
           b == brace + Count(cur, "{") - Count(cur, "}")
       IN ScanBlock(lines, i + 1, b, IF b > 0 THEN Append(block, cur) ELSE block)
  ELSE [i |-> i, brace |-> brace, block |-> block]

\* ^\s*\(([^)]+)\)\s*:\s*(.+?)\s*$ : <<op, type_sig>>, or none
OperatorOfLine(bline) ==
  LET a == Span(bline, 0, Space)
      b == SpanNot(bline, a + 1, {")"})
      c == Span(bline, b + 1, Space)
  IN IF /\ StartsAt(bline, a, "(")
        /\ b > a + 1
        /\ b < Len(bline)
        /\ StartsAt(bline, c, ":")
        /\ c + 1 < Len(bline)
     THEN <<<<Strip(Slice(bline, a + 1, b)), Strip(From(bline, c + 1))>>>>
     ELSE <<>>

\* ^\s*([0-9]+[A-Za-z][A-Za-z0-9_]*)\s*=\s*.+$ : the template, or none
TemplateOfLine(bline) ==
  LET a == Span(bline, 0, Space)
      b == Span(bline, a, Digit)
      c == Span(bline, b, Word)
      d == Span(bline, c, Space)
  IN IF /\ b > a
        /\ b < Len(bline)
        /\ Ch(bline, b) \in Letter
        /\ StartsAt(bline, d, "=")
        /\ d + 1 < Len(bline)
     THEN <<Slice(bline, a, c)>>
     ELSE <<>>

\* ^\s*([a-z][A-Za-z0-9_]*)\s*=\s*([A-Z][A-Za-z0-9_]*)\b.*$ : the name, or none
NamedLiteralOfLine(bline) ==
  LET a == Span(bline, 0, Space)
      c == Span(bline, a, Word)
      d == Span(bline, c, Space)
      e == Span(bline, d + 1, Space)
  IN IF /\ a < Len(bline)
        /\ Ch(bline, a) \in Lower
        /\ StartsAt(bline, d, "=")
        /\ e < Len(bline)
        /\ Ch(bline, e) \in Upper
        /\ Boundary(bline, Span(bline, e, Word))
     THEN <<Slice(bline, a, c)>>
     ELSE <<>>

RECURSIVE DomainOfBlock(_, _)
DomainOfBlock(block, dom) ==
  IF block = <<>> THEN dom
  ELSE LET bline == block[1]
       IN DomainOfBlock(Tail(block),
            IF OperatorOfLine(bline) # <<>>
            THEN [dom EXCEPT !.operators = @ \o OperatorOfLine(bline)]
            ELSE IF TemplateOfLine(bline) # <<>>
            THEN [dom EXCEPT !.templates = @ \o TemplateOfLine(bline)]
            ELSE [dom EXCEPT !.named_literals = @ \o NamedLiteralOfLine(bline)])

DomainDef(name, carrier) ==
  [name |-> name, carrier |-> carrier, operators |-> <<>>, templates |-> <<>>,
   named_literals |-> <<>>]

\* the outer while loop from line index i on
RECURSIVE DomainsFrom(_, _, _)
DomainsFrom(lines, i, out) ==
  IF i >= Len(lines) THEN out
  ELSE LET m == DomainHeader(lines[i + 1])
           sc == ScanBlock(lines, i + 1, 1, <<>>)
       IN IF ~m.ok THEN DomainsFrom(lines, i + 1, out)
          ELSE DomainsFrom(lines, sc.i,
                 Append(out, DomainOfBlock(sc.block, DomainDef(m.name, m.carrier))))

parse_domain_defs(aivi_source) == DomainsFrom(SplitLines(aivi_source), 0, <<>>)

\* For every domain header the outer loop finds: the index of the header, the
\* index the inner loop stops at and the value of `brace` when it stops.
RECURSIVE BlockEnds(_, _, _)
BlockEnds(lines, i, out) ==
  IF i >= Len(lines) THEN out
  ELSE LET m == DomainHeader(lines[i + 1])
           sc == ScanBlock(lines, i + 1, 1, <<>>)
       IN IF ~m.ok THEN BlockEnds(lines, i + 1, out)
          ELSE BlockEnds(lines, sc.i,
                 Append(out, [header |-> i, i |-> sc.i, brace |-> sc.brace]))

\* literal_base without the decimal case
LiteralBaseAlways2(suffix) == "2"

\* literal_base of a suffix case
LiteralBase(suffix) == IF suffix = "dec" THEN "3.14" ELSE "2"

\* The write calls domain_tests makes, in order: one per template, then one
\* per named literal.
domain_tests(mod, domain) ==
  LET mod_segs == module_segments(mod)
      dseg == "domain_" \o sanitize_segment(domain.name)
      dom_dir == OUT \o "/" \o Join(mod_segs, "/") \o "/" \o dseg
      prefix == <<"integrationTests", "stdlib">> \o mod_segs \o <<dseg>>
      Body(case, subject) ==
        header(Join(prefix \o <<case>>, ".")) \o "\nuse aivi\n" \o use_testlib
        \o "\n" \o use_all(mod) \o "\n" \o use_select(mod, "domain " \o domain.name)
        \o "\nsubject = " \o subject \o "\n" \o SmokeSubject
      Tpl(tpl) ==
        LET suffix == StripLeadingDigits(tpl)
            case == "suffix_" \o sanitize_segment(suffix)
        IN WriteCall(dom_dir \o "/" \o case \o ".aivi",
                     Body(case, LiteralBase(suffix) \o suffix))
      Lit(lit) ==
        LET case == "literal_" \o sanitize_segment(lit)
        IN WriteCall(dom_dir \o "/" \o case \o ".aivi", Body(case, lit))
  IN [i \in 1..Len(domain.templates) |-> Tpl(domain.templates[i])]
     \o [i \in 1..Len(domain.named_literals) |-> Lit(domain.named_literals[i])]

-----------------------------------------------------------------------------
(* Driver                                                                     *)

\* Where the repository lies (Path(__file__).resolve().parents[1]); the paths
\* of the model are relative to it.
ROOT == "/repo"

\* The limits of the file system: the bytes of one path segment, and of a
\* whole path with its terminator.
NameMax == 255
PathMax == 4096

\* the directory a path lies in
Parent(path) ==
  Slice(path, 0, MaxOf({i \in 0..(Len(path) - 1) : Ch(path, i) = "/"} \cup {0}))

\* The first i segments of a path.
Upto(parts, i) == Join(SubSeq(parts, 1, i), "/")

\* the directories above a path
Ancestors(path) ==
  {Upto(Split(path, "/"), i) : i \in 1..(Len(Split(path, "/")) - 1)}

\* The output tree: the content of each file and the directories there are.
\* The tree in which the files `files` and the directories above them exist.
TreeOf(files) ==
  [files |-> files, dirs |-> UNION {Ancestors(p) : p \in DOMAIN files}]

PathTooLong(path) == Len(ROOT) + 1 + Len(path) >= PathMax

NameTooLong(path) == "OSError: [Errno 36] File name too long: '" \o path \o "'"

\* mkdir for the directory p of segments parts, whose first segment that is
\* not a directory is the m-th and whose first too long segment from there on
\* is the k-th.
MkdirUntil(tr, p, parts, m, k) ==
  IF PathTooLong(p) THEN [err |-> NameTooLong(p), dirs |-> tr.dirs]
  ELSE IF m = Len(parts) /\ p \in DOMAIN tr.files
  THEN [err |-> "FileExistsError: [Errno 17] File exists: '" \o p \o "'",
        dirs |-> tr.dirs]
  ELSE IF m < Len(parts) /\ Upto(parts, m) \in DOMAIN tr.files
  THEN [err |-> "NotADirectoryError: [Errno 20] Not a directory: '" \o p \o "'",
        dirs |-> tr.dirs]
  ELSE IF k = m /\ m <= Len(parts) THEN [err |-> NameTooLong(p), dirs |-> tr.dirs]
  ELSE IF k <= Len(parts)
  THEN [err |-> NameTooLong(Upto(parts, k)),
        dirs |-> tr.dirs \cup {Upto(parts, i) : i \in m..(k - 1)}]
  ELSE [err |-> "", dirs |-> tr.dirs \cup {Upto(parts, i) : i \in m..Len(parts)}]

MkdirFrom(tr, p, parts, m) ==
  MkdirUntil(tr, p, parts, m,
             MinOf({i \in m..Len(parts) : Len(parts[i]) > NameMax}
                   \cup {Len(parts) + 1}))

MkdirParts(tr, p, parts) ==
  MkdirFrom(tr, p, parts,
            MinOf({i \in 1..Len(parts) : Upto(parts, i) \notin tr.dirs}
                  \cup {Len(parts) + 1}))

\* path.parent.mkdir(parents=True, exist_ok=True) for the directory p: the
\* error it raises or "", and the directories there are afterwards. os.mkdir
\* is tried on p first; when a directory above is missing it is tried on each
\* missing directory from the top down, and the first call that fails raises.
Mkdir(tr, p) == MkdirParts(tr, p, Split(p, "/"))

\* The OSError write(path, text) ends with in tree tr once mkdir has ended as
\* d, or "": mkdir's, or write_text's when the path or its last segment is too
\* long or the path is a directory.
WriteErrorOf(tr, path, d) ==
  IF d.err # "" THEN d.err
  ELSE IF PathTooLong(path) \/ Len(Split(path, "/")[Len(Split(path, "/"))]) > NameMax
  THEN NameTooLong(path)
  ELSE IF path \in tr.dirs
  THEN "IsADirectoryError: [Errno 21] Is a directory: '" \o path \o "'"
  ELSE ""

WriteError(tr, path) == WriteErrorOf(tr, path, Mkdir(tr, Parent(path)))

\* write(path, text) once mkdir has ended as d, leaving the file with the
\* content text: the call raises, leaving the files as they are and the
\* directories mkdir created before it failed, or the file is created or
\* replaced
WriteAfter(tr, w, d, text) ==
  IF WriteErrorOf(tr, w.path, d) # ""
  THEN [ok |-> FALSE, err |-> WriteErrorOf(tr, w.path, d),
        tree |-> [files |-> tr.files, dirs |-> d.dirs]]
  ELSE [ok |-> TRUE, err |-> "",
        tree |-> [files |-> [p \in (DOMAIN tr.files) \cup {w.path} |->
                               IF p = w.path THEN text ELSE tr.files[p]],
                  dirs |-> d.dirs]]

\* write with the file opened for appending instead of replaced
write_appending(tr, w) ==
  WriteAfter(tr, w, Mkdir(tr, Parent(w.path)),
             (IF w.path \in DOMAIN tr.files THEN tr.files[w.path] ELSE "") \o w.text)

\* write(path, text): the missing directories above the path are created and
\* the file is created or replaced
write(tr, w) ==
  WriteAfter(tr, w, Mkdir(tr, Parent(w.path)), w.text)

\* write calls made in order until one raises: the tree, the exception or "",
\* and the calls that were carried out
RECURSIVE WriteFrom(_, _, _)
WriteFrom(tr, writes, done) ==
  IF writes = <<>> THEN [tree |-> tr, err |-> "", done |-> done]
  ELSE LET o == write(tr, writes[1])
       IN IF o.ok THEN WriteFrom(o.tree, Tail(writes), Append(done, writes[1]))
          ELSE [tree |-> o.tree, err |-> o.err, done |-> done]

WriteAll(tr, writes) == WriteFrom(tr, writes, <<>>)

\* the write calls made while file rs is processed, as the history keeps them
Logged(rs, writes) ==
  [i \in 1..Len(writes) |-> [rs |-> rs, path |-> writes[i].path, text |-> writes[i].text]]

\* the stdlib directory: whether it exists, and its files (name -> text)
Dir(files) == [exists |-> TRUE, files |-> files]
NoDir == [exists |-> FALSE, files |-> <<>>]
NoCtx == [rs |-> "", mod |-> "", aivi_src |-> "", class_defs |-> {}, ctor_exports |-> {}]
NoEv == [kind |-> "none", item |-> "", writes |-> <<>>]
Ev(kind, item, writes) == [kind |-> kind, item |-> item, writes |-> writes]

\* STDLIB_SRC.glob("*.rs")
Glob(d) == {n \in DOMAIN d.files : EndsWith(n, ".rs")}

\* how many times main may be run in a behaviour
MaxRuns == 2

\* main, up to the loop: the directory check, the counter, the sorted listing
MainStart ==
  /\ pc = "idle"
  /\ tree0' = tree
  /\ ev' = NoEv
  /\ IF ~dir.exists
     THEN /\ pc' = "aborted"
          /\ err' = "missing crates/aivi/src/stdlib"
          /\ UNCHANGED <<generated, queue>>
     ELSE /\ pc' = "loop"
          /\ generated' = 0
          /\ queue' = Sorted(Glob(dir))
          /\ err' = ""
  /\ written' = <<>>
  /\ UNCHANGED <<dir, tree, tree1, run, ctx, todo, doms, stdout, inp, res>>

\* rs.read_text(encoding="utf-8"): the file is read in text mode, where every
\* carriage return + line feed and every lone carriage return becomes a line
\* feed
read_text(file) ==
  Join(Split(Join(Split(file, "\r\n"), "\n"), "\r"), "\n")

\* rs_text = rs.read_text(); mod = parse_module_name(rs_text);
\* aivi_src = parse_aivi_source(rs_text): the first exception raised, or both
\* values
ReadModule(file) ==
  LET rs_text == read_text(file)
      mod == parse_module_name(rs_text)
      aivi_src == parse_aivi_source(rs_text)
  IN IF ~mod.ok THEN [ok |-> FALSE, err |-> mod.val, mod |-> "", aivi_src |-> ""]
     ELSE IF ~aivi_src.ok
     THEN [ok |-> FALSE, err |-> aivi_src.val, mod |-> "", aivi_src |-> ""]
     ELSE [ok |-> TRUE, err |-> "", mod |-> mod.val, aivi_src |-> aivi_src.val]

\* the loop body for file rs, read as m
NextFile(rs, m) ==
  IF rs = "mod.rs"
  THEN /\ ev' = Ev("skip_index", rs, <<>>)
       /\ UNCHANGED <<pc, err, ctx, todo>>
  ELSE IF ~m.ok
  THEN /\ pc' = "aborted"
       /\ err' = m.err
       /\ ev' = Ev("abort", rs, <<>>)
       /\ UNCHANGED <<ctx, todo>>
  ELSE /\ pc' = "exports"
       /\ ctx' = [rs |-> rs,
                  mod |-> m.mod,
                  aivi_src |-> m.aivi_src,
                  class_defs |-> parse_class_defs(m.aivi_src),
                  ctor_exports |-> parse_ctor_exports(m.aivi_src)]
       /\ todo' = split_exports(m.aivi_src)
       /\ ev' = Ev("file", rs, <<>>)
       /\ UNCHANGED err

\* the head of the loop body: skip the index file, or read and parse the file
MainNextFile ==
  /\ pc = "loop"
  /\ queue # <<>>
  /\ queue' = Tail(queue)
  /\ NextFile(Head(queue), ReadModule(dir.files[Head(queue)]))
  /\ UNCHANGED <<dir, tree, tree0, tree1, run, doms, generated, stdout, inp, res, written>>

\* the write calls of one export have ended as o: the test is counted, or the
\* run dies on the exception
ExportWrites(export, o) ==
  /\ tree' = o.tree
  /\ written' = written \o Logged(ctx.rs, o.done)
  /\ IF o.err = ""
     THEN /\ generated' = generated + 1
          /\ ev' = Ev("export", export, o.done)
          /\ UNCHANGED <<pc, err>>
     ELSE /\ pc' = "crashed"
          /\ err' = o.err
          /\ ev' = Ev("crash", export, o.done)
          /\ UNCHANGED generated

\* one iteration of the loop over the exports
MainExport ==
  /\ pc = "exports"
  /\ todo # <<>>
  /\ todo' = Tail(todo)
  /\ IF StartsWith(Head(todo), "domain ")
     THEN /\ ev' = Ev("skip_domain_export", Head(todo), <<>>)
          /\ UNCHANGED <<tree, generated, written, pc, err>>
     ELSE IF Head(todo) \in ctx.class_defs
     THEN /\ ev' = Ev("skip_class", Head(todo), <<>>)
          /\ UNCHANGED <<tree, generated, written, pc, err>>
     ELSE ExportWrites(Head(todo),
                       WriteAll(tree, basic_export_test(ctx.mod, Head(todo),
                                                        ctx.ctor_exports)))
  /\ UNCHANGED <<dir, tree0, tree1, run, queue, ctx, doms, stdout, inp, res>>

\* the exports are done: parse the domain blocks
MainDomains ==
  /\ pc = "exports"
  /\ todo = <<>>
  /\ pc' = "domains"
  /\ doms' = parse_domain_defs(ctx.aivi_src)
  /\ ev' = NoEv
  /\ UNCHANGED <<dir, tree, tree0, tree1, run, queue, ctx, todo, generated, stdout,
                 err, inp, res, written>>

\* the write calls of one domain have ended as o
DomainWrites(dom, o) ==
  /\ tree' = o.tree
  /\ written' = written \o Logged(ctx.rs, o.done)
  /\ IF o.err = ""
     THEN /\ ev' = Ev("domain", dom, o.done)
          /\ UNCHANGED <<pc, err>>
     ELSE /\ pc' = "crashed"
          /\ err' = o.err
          /\ ev' = Ev("crash", dom.name, o.done)

\* one iteration of the loop over the domains: a call of domain_tests
MainDomain ==
  /\ pc = "domains"
  /\ doms # <<>>
  /\ DomainWrites(Head(doms), WriteAll(tree, domain_tests(ctx.mod, Head(doms))))
  /\ doms' = Tail(doms)
  /\ UNCHANGED <<dir, tree0, tree1, run, queue, ctx, todo, generated, stdout, inp, res>>

\* the file is done: back to the head of the loop
MainFileDone ==
  /\ pc = "domains"
  /\ doms = <<>>
  /\ pc' = "loop"
  /\ ev' = NoEv
  /\ UNCHANGED <<dir, tree, tree0, tree1, run, queue, ctx, todo, doms, generated,
                 stdout, err, inp, res, written>>

\* after the loop: the summary line
MainPrint ==
  /\ pc = "loop"
  /\ queue = <<>>
  /\ pc' = "done"
  /\ stdout' = Append(stdout, "generated " \o IntToStr(generated)
                              \o " export tests under " \o OUT)
  /\ ev' = NoEv
  /\ UNCHANGED <<dir, tree, tree0, tree1, run, queue, ctx, todo, doms, generated,
                 err, inp, res, written>>

\* main is run again over the same inputs
Rerun ==
  /\ pc \in {"done", "aborted", "crashed"}
  /\ run < MaxRuns
  /\ run' = run + 1
  /\ tree1' = IF run = 1 THEN tree ELSE tree1
  /\ pc' = "idle"
  /\ ctx' = NoCtx
  /\ todo' = <<>>
  /\ doms' = <<>>
  /\ err' = ""
  /\ ev' = NoEv
  /\ UNCHANGED <<dir, tree, tree0, queue, generated, stdout, inp, res, written>>

-----------------------------------------------------------------------------
(* Inputs of the driver                                                       *)

RsFile(mod, src) ==
  "pub const MODULE_NAME: &str = \"" \o mod \o "\";\n"
  \o SourceMarker \o "\n" \o src \o SourceEnd \o "\n"

SrcExample ==
  "@no_prelude\nmodule aivi.example\nexport origin\nPoint = { x: Int, y: Int }\norigin = { x: 0, y: 0 }\n"
SrcAdt ==
  "module aivi.db\nexport ColumnType, IntType, Varchar\nColumnType = IntType | BoolType | Varchar Int\n"
\* the one shape of line the constructor pattern accepts as written, in a file
\* whose lines end in \r\n and \r
SrcAdtRaw ==
  "module aivi.raw\r\nexport A, T, b\rT\\b=\\A | B\r\n"
SrcClass ==
  "module aivi.logic\nexport Functor, map, Functor, map, domain Logic\nclass Functor F = {\n  map: F A -> F B\n}\nFunctorLaws = Lawful | Unlawful\n"
SrcDomain ==
  "module aivi.duration\nexport domain Duration, 1ms, 20dec // units\nexport a-b, a_b\ndomain Duration over Int = {\n  (+) : Int -> Int\n  1ms = Millis 1\n  1dec = Dec 1\n  1mdec = Mdec 1\n  zero = Millis 0\n}\n"

\* s repeated n times
RECURSIVE Repeat(_, _)
Repeat(s, n) ==
  IF n = 0 THEN ""
  ELSE IF n = 1 THEN s
  ELSE Repeat(s, n \div 2) \o Repeat(s, n - (n \div 2))

\* a module whose second export has a name that, with its .aivi ending, is
\* one byte longer than a file name may be
SrcLong ==
  "module aivi.long\nexport ok, " \o Repeat("d", NameMax - 4) \o "\n"

Catalog ==
  { RsFile("aivi.example", SrcExample),
    RsFile("aivi.long", SrcLong),
    RsFile("aivi.db", SrcAdt),
    RsFile("aivi.raw", SrcAdtRaw),
    RsFile("aivi.logic", SrcClass),
    RsFile("aivi.duration", SrcDomain),
    \* malformed: no module name, no source marker, no source terminator
    SourceMarker \o "\nexport a\n" \o SourceEnd \o "\n",
    "pub const MODULE_NAME: &str = \"aivi.bad\";\n" \o SourceEnd \o "\n",
    "pub const MODULE_NAME: &str = \"aivi.bad\";\n" \o SourceMarker \o "\nexport a\n" }

Extras == [n \in {"mod.rs", "notes.md"} |-> "pub mod example;\n"]

Dirs ==
  {NoDir} \cup
  UNION { UNION { { Dir(f), Dir([n \in (DOMAIN f) \cup (DOMAIN Extras) |->
                                   IF n \in DOMAIN f THEN f[n] ELSE Extras[n]]) }
                  : f \in [N -> Catalog] }
          : N \in SUBSET {"a.rs", "b.rs"} }

\* output trees a run may find: empty; a stale copy of a file the run writes
\* beside a file the run never touches; and a file or a directory in the way
\* of what the run writes
InitialTrees ==
  { TreeOf(<<>>),
    TreeOf((OUT \o "/aivi/example/origin.aivi" :> "stale\n")
           @@ (OUT \o "/aivi/old/gone.aivi" :> "kept\n")),
    TreeOf((OUT \o "/aivi/example" :> "x\n")),
    TreeOf((OUT \o "/aivi/duration/domain_Duration" :> "x\n")),
    TreeOf((OUT \o "/aivi/db/IntType.aivi/sub" :> "x\n")) }

Init ==
  /\ dir \in Dirs
  /\ tree \in InitialTrees
  /\ tree0 = tree
  /\ tree1 = tree
  /\ run = 1
  /\ pc = "idle"
  /\ queue = <<>>
  /\ ctx = NoCtx
  /\ todo = <<>>
  /\ doms = <<>>
  /\ generated = 0
  /\ stdout = <<>>
  /\ err = ""
  /\ ev = NoEv
  /\ written = <<>>
  /\ inp = <<>>
  /\ res = <<>>

Next ==
  \/ MainStart
  \/ MainNextFile
  \/ MainExport
  \/ MainDomains
  \/ MainDomain
  \/ MainFileDone
  \/ MainPrint
  \/ Rerun

Spec == Init /\ [][Next]_vars

-----------------------------------------------------------------------------
(* Properties of the driver (specification Spec)                              *)

\* text has a line equal to line
HasLine(text, line) == Contains("\n" \o text, "\n" \o line \o "\n")

\* C1: when a run aborts because a definition file fails structural
\* extraction, no output file has been written: the output tree equals the
\* tree the run started from.
C1_NoOutputOnAbort ==
  (pc = "aborted" /\ ev.kind = "abort") => tree.files = tree0.files

\* A single-line ADT declaration as the comment of parse_ctor_exports gives
\* it, `ColumnType = IntType | BoolType | Varchar Int`: a capitalized name,
\* anything, "=", and alternatives separated by "|". Its right-hand side.
AdtRhs(line) ==
  LET s == Strip(line)
      eqs == {q \in 1..(Len(s) - 2) : Ch(s, q) = "="}
  IN IF s # "" /\ ~StartsWith(s, "//") /\ Contains(s, "|") /\ eqs # {}
        /\ Ch(s, 0) \in Upper
        /\ (Span(s, 0, Word) = Len(s) \/ Ch(s, Span(s, 0, Word)) \notin Word)
     THEN <<Strip(From(s, MaxOf(eqs) + 1))>>
     ELSE <<>>

\* the constructor heads, and the type names, of the ADT declarations of a source
AdtHeads(src) ==
  UNION {IF AdtRhs(l) = <<>> THEN {} ELSE CtorHeads(AdtRhs(l)[1])
         : l \in Range(SplitLines(src))}
AdtTypes(src) ==
  {Slice(Strip(l), 0, Span(Strip(l), 0, Word))
   : l \in {k \in Range(SplitLines(src)) : AdtRhs(k) # <<>>}}

\* C2: an export naming a constructor head of an ADT declaration gets a
\* constructor-smoke test (subject = Ci, evaluating subject); an export of the
\* ADT's type name, not itself a head, gets only a type-reference test.
C2_CtorVsTypeName ==
  ev.kind = "export" =>
    /\ ev.item \in AdtHeads(ctx.aivi_src) =>
         /\ Len(ev.writes) = 1
         /\ HasLine(ev.writes[1].text, "subject = " \o ev.item)
         /\ HasLine(ev.writes[1].text, "  _ <- pure subject")
    /\ ev.item \in AdtTypes(ctx.aivi_src) \ AdtHeads(ctx.aivi_src) =>
         /\ Len(ev.writes) = 1
         /\ HasLine(ev.writes[1].text, "Ref = " \o ev.item)
         /\ ~Contains(ev.writes[1].text, "subject")

\* C4: a second run of main over unchanged inputs ends with the output tree
\* the first run left (same files, same content).
C4_Idempotent ==
  (run >= 2 /\ pc \in {"done", "aborted", "crashed"}) => tree.files = tree1.files

\* a second run that wrote export tests has ended
C4_Witness ==
  /\ run = 2
  /\ pc = "done"
  /\ generated >= 2
  /\ tree.files = tree1.files
  /\ tree.files # <<>>

\* The names declared by the `class Name` lines of a source: the line's first
\* field is the word class, its second begins with a capitalized name.
DeclaredClasses(src) ==
  {Slice(SplitWs(l)[2], 0, Span(SplitWs(l)[2], 0, Word))
   : l \in {k \in Range(SplitLines(src)) :
              /\ Len(SplitWs(k)) >= 2
              /\ SplitWs(k)[1] = "class"
              /\ Ch(SplitWs(k)[2], 0) \in Upper}}

\* C5: handling an export whose name is a declared class of the module writes
\* no file and does not count.
C5_ClassExclusion ==
  [][(pc = "exports" /\ todo # <<>> /\ Head(todo) \in DeclaredClasses(ctx.aivi_src))
       => (tree' = tree /\ generated' = generated)]_vars

\* an export naming a declared class has just been handled
C5_Witness ==
  /\ ev.kind = "skip_class"
  /\ ev.item \in DeclaredClasses(ctx.aivi_src)
  /\ Len(todo) >= 1

\* the suffix of a template: what follows its leading digits
SuffixOf(tpl) ==
  From(tpl, CHOOSE d \in 1..Len(tpl) :
              /\ \A k \in 0..(d - 1) : Ch(tpl, k) \in Digit
              /\ d = Len(tpl) \/ Ch(tpl, d) \notin Digit)

\* the suffix cases of the domain step just taken carry these subjects
SuffixSubjects(Base(_)) ==
  ev.kind = "domain" =>
    \A i \in 1..Len(ev.item.templates) :
      /\ Len(ev.writes) >= i
      /\ HasLine(ev.writes[i].text,
                 "subject = " \o Base(ev.item.templates[i])
                 \o SuffixOf(ev.item.templates[i]))

BaseIfEndsInDec(tpl) == IF EndsWith(tpl, "dec") THEN "3.14" ELSE "2"
BaseIfSuffixIsDec(tpl) == IF SuffixOf(tpl) = "dec" THEN "3.14" ELSE "2"

\* C8 as stated: every suffix template gets subject 2<suffix>, except that a
\* template ending in dec gets 3.14<suffix>.
C8_EndsInDec == SuffixSubjects(BaseIfEndsInDec)

\* C8 amended: every suffix template gets subject 2<suffix>, except that a
\* template whose suffix is exactly dec gets 3.14dec.
C8_SuffixIsDec == SuffixSubjects(BaseIfSuffixIsDec)

\* a domain with a dec template, a template ending in dec, and a plain one
C8_Witness ==
  /\ ev.kind = "domain"
  /\ {"1ms", "1dec", "1mdec"} \subseteq Range(ev.item.templates)
  /\ \E i \in 1..Len(ev.writes) : HasLine(ev.writes[i].text, "subject = 2ms")

\* The export tokens of a source, counted as the export list is described:
\* on every line whose trimmed form starts with the export keyword, the text
\* up to a comment, split on commas; blank pieces are no tokens. The number
\* of those that are neither domain-prefixed nor a declared class.
TokensOnLine(line) ==
  LET s == Strip(line)
      rest == Slice(s, 7, IF Find(s, "//", 7) < 0 THEN Len(s) ELSE Find(s, "//", 7))
      parts == Split(rest, ",")
  IN IF ~StartsWith(s, "export ") THEN <<>>
     ELSE SelectSeq([k \in 1..Len(parts) |-> Strip(parts[k])], LAMBDA x : x # "")

Plain(token, classes) == ~StartsWith(token, "domain ") /\ token \notin classes

CountedOnLine(line, classes) ==
  Len(SelectSeq(TokensOnLine(line), LAMBDA x : Plain(x, classes)))

RECURSIVE SumOf(_)
SumOf(s) == IF s = <<>> THEN 0 ELSE s[1] + SumOf(Tail(s))

CountedExports(src) ==
  LET lines == SplitLines(src)
  IN SumOf([i \in 1..Len(lines) |-> CountedOnLine(lines[i], DeclaredClasses(src))])

\* the count a successful run over directory d ends with
ExpectedCount(d) ==
  LET names == Sorted({n \in DOMAIN d.files : EndsWith(n, ".rs") /\ n # "mod.rs"})
  IN SumOf([i \in 1..Len(names) |->
              CountedExports(ReadModule(d.files[names[i]]).aivi_src)])

SummaryLine(n) ==
  "generated " \o IntToStr(n) \o " export tests under integration-tests/stdlib"

\* C11: a successful run prints exactly one summary line, after all files
\* are processed (a run that dies on a failing write prints none), and its count is the number of export-level test documents
\* the run wrote: one per export token (duplicates counted) that is neither
\* domain-prefixed nor a declared class of its module, summed over the
\* processed files; domain cases and the index file add nothing.
C11_SummaryCount ==
  /\ [](/\ pc = "done" => (Len(stdout) = run
                            /\ stdout[run] = SummaryLine(ExpectedCount(dir)))
        /\ pc # "done" => Len(stdout) < run)
  /\ [][/\ (pc = "exports" /\ todo # <<>>) =>
             IF /\ ~StartsWith(Head(todo), "domain ")
                /\ Head(todo) \notin DeclaredClasses(ctx.aivi_src)
             THEN \/ /\ generated' = generated + 1
                     /\ Len(ev'.writes) = 1
                     /\ write(tree, ev'.writes[1]).ok
                     /\ tree' = write(tree, ev'.writes[1]).tree
                  \/ /\ pc' = "crashed"
                     /\ generated' = generated
                     /\ tree'.files = tree.files
             ELSE generated' = generated /\ tree' = tree
        /\ pc = "domains" => generated' = generated
        /\ pc = "loop" => (generated' = generated /\ tree' = tree)]_vars

\* a run over an index file, a module with a class and duplicate exports and
\* a module with a domain has printed its count
C11_Witness ==
  /\ pc = "done"
  /\ run = 1
  /\ {"mod.rs", "a.rs", "b.rs"} \subseteq DOMAIN dir.files
  /\ dir.files["a.rs"] = RsFile("aivi.logic", SrcClass)
  /\ dir.files["b.rs"] = RsFile("aivi.duration", SrcDomain)
  /\ stdout = <<SummaryLine(6)>>

RECURSIVE Flatten(_)
Flatten(ss) == IF ss = <<>> THEN <<>> ELSE ss[1] \o Flatten(Tail(ss))

\* the export tokens of a source that are neither domain-prefixed nor classes
PlainExports(src) ==
  LET lines == SplitLines(src)
  IN SelectSeq(Flatten([i \in 1..Len(lines) |-> TokensOnLine(lines[i])]),
               LAMBDA x : Plain(x, DeclaredClasses(src)))

\* the names a source declares as types: Name = ... with a capitalized name
DeclaredTypes(src) ==
  {SplitWs(l)[1] : l \in {k \in Range(SplitLines(src)) :
                            /\ Len(SplitWs(k)) >= 2
                            /\ SplitWs(k)[2] = "="
                            /\ Ch(SplitWs(k)[1], 0) \in Upper}}

HasDomainLine(src) ==
  \E l \in Range(SplitLines(src)) : StartsWith(Strip(l), "domain ")

\* the write calls made for the file being processed
WrittenForFile == SelectSeq(written, LAMBDA w : w.rs = ctx.rs)

\* the path of the test document of export e of module mod
ExportPath(mod, e) ==
  OUT \o "/" \o Join(module_segments(mod), "/") \o "/" \o sanitize_segment(e) \o ".aivi"

\* C12: when a module without domain blocks has been processed, the files
\* written for it are exactly one per export that is neither a class name nor
\* domain-prefixed; a type declared but not exported has no file; the module
\* exporting only origin has exactly one file, binding subject = origin.
C12_OnlyExportsGetTests ==
  (pc = "domains" /\ doms = <<>> /\ ~HasDomainLine(ctx.aivi_src)) =>
    LET W == WrittenForFile
        E == PlainExports(ctx.aivi_src)
    IN /\ Len(W) = Len(E)
       /\ \A i \in 1..Len(W) : W[i].path = ExportPath(ctx.mod, E[i])
       /\ \A T \in DeclaredTypes(ctx.aivi_src) \ Range(E) :
            \A i \in 1..Len(W) :
              /\ W[i].path # ExportPath(ctx.mod, T)
              /\ ~HasLine(W[i].text, "Ref = " \o T)
              /\ ~HasLine(W[i].text, "subject = " \o T)
       /\ Range(E) = {"origin"} =>
            /\ Len(W) = 1
            /\ HasLine(W[1].text, "subject = origin")
            /\ tree.files[W[1].path] = W[1].text

\* the example module, which declares the record Point and exports origin,
\* has been processed
C12_Witness ==
  /\ pc = "domains"
  /\ doms = <<>>
  /\ ctx.aivi_src = "\n" \o SrcExample
  /\ "Point" \in DeclaredTypes(ctx.aivi_src)
  /\ Len(WrittenForFile) = 1
  /\ WrittenForFile[1].path = "integration-tests/stdlib/aivi/example/origin.aivi"

\* C15: whenever two writes of one run target the same output path (from
\* duplicate exports, from export names or suffix templates whose sanitized
\* case names coincide, or from two files declaring the same module), both
\* carry the same content: no test document is replaced by a different one.
C15_NoConflictingOverwrite ==
  \A i, j \in 1..Len(written) :
    written[i].path = written[j].path => written[i].text = written[j].text

-----------------------------------------------------------------------------
(* The synthesizer on its own (specification SpecSynth): sample_expr_for_type *)
(* applied to a type expression under a declaration model.                    *)

Tup(a, b) == "(" \o a \o ", " \o b \o ")"

\* how deep the generated tuple types nest
MaxNest == 2

InnerAtoms == {"Int", "Bool", "Text", "Point", "Node"}

\* tuple types nested to depth n: one component an atom, the other any type of
\* depth n - 1
RECURSIVE TupleTypes(_)
TupleTypes(n) ==
  IF n = 0 THEN InnerAtoms
  ELSE InnerAtoms
       \cup {Tup(a, x) : a \in InnerAtoms, x \in TupleTypes(n - 1)}
       \cup {Tup(x, a) : a \in InnerAtoms, x \in TupleTypes(n - 1)}

OtherTypes ==
  { "Float", "Char", "Unit", "Bytes", "Option Int", "Option", "List Text",
    "List  (Int, Text)", "Map Text Int", "Set Int", "Delta", "Foo", "", "Line",
    "A", "B", "E", " Int ", "( Int ,\tText )", "(Int)", "()", "(Int,)", "(Int, )",
    "(,Int)", "(Int,,Text)", "(Int, Foo, Delta)", "(Int, List (Int, Text), Bool)",
    "(Int, {a, b}, [c, d])", "(Point, Line)", "(E, Delta)", "(A, Int)",
    "(Int, Text) -> (Bool, Text)", "(Int -> Text) -> (Bool, Text)",
    "((Int, Text))", "(Int, Text))", "((Int, Text)" }

\* declaration models: the record shapes of these sources
ModelSources ==
  { "",
    "Point = { x: Int, y: Int }\nLine = { a: Point, b: (Point, Foo), c: Delta }\nE = {}\n",
    "Node = { next: Node, v: Int }\n",
    "A = { b: B, n: Int }\nB = { a: (Int, A) }\n",
    "Int = { v: Text }\nDelta = { d: Int }\nPoint = { p: (Int, Bool) }\n" }

DeclModels == {parse_record_type_aliases(s) : s \in ModelSources}

SynthInput(ty, rt, tpls, lits, st) ==
  [ty |-> ty, record_types |-> rt, templates |-> tpls, named_literals |-> lits,
   interp |-> st]

SynthInputs ==
  {SynthInput(ty, rt, <<>>, <<>>, Fresh) : ty \in TupleTypes(MaxNest) \cup OtherTypes,
                                           rt \in DeclModels}
  \cup {SynthInput(ty, rt, d[1], d[2], st) :
          ty \in {"Delta", "Line", "(Delta, Int)"}, rt \in DeclModels,
          d \in {<<<<"1ms", "1dec">>, <<"zero">>>>, <<<<"10dec">>, <<>>>>,
                 <<<<>>, <<"zero", "one">>>>},
          st \in {Fresh, ReState(TRUE, ImportCalls + 1),
                   ReState(TRUE, SpecializedAfter)}}

InitSynth ==
  /\ inp \in SynthInputs
  /\ pc = "ready"
  /\ res = None
  /\ dir = NoDir
  /\ tree = <<>>
  /\ tree0 = <<>>
  /\ tree1 = <<>>
  /\ run = 1
  /\ queue = <<>>
  /\ ctx = NoCtx
  /\ todo = <<>>
  /\ doms = <<>>
  /\ generated = 0
  /\ stdout = <<>>
  /\ err = ""
  /\ ev = NoEv
  /\ written = <<>>

\* a call of sample_expr_for_type
Synthesize ==
  /\ pc = "ready"
  /\ res' = SampleExprIn(inp.ty, inp.record_types, inp.templates,
                         inp.named_literals, inp.interp)
  /\ pc' = "done"
  /\ UNCHANGED <<dir, tree, tree0, tree1, run, queue, ctx, todo, doms, generated,
                 stdout, err, ev, inp, written>>

NextSynth == Synthesize

SpecSynth == InitSynth /\ [][NextSynth]_vars

-----------------------------------------------------------------------------
(* Properties of the synthesizer (specification SpecSynth)                    *)

\* the whitespace-collapsed type expression the rules are tried against
Normalized(ty) == Join(SplitWs(ty), " ")

\* the synthesis of a component: its text, or the placeholder
Placeholder(r) == IF r.kind = "str" THEN r.val ELSE "Unit"

SynthOf(ty) ==
  SampleExprIn(ty, inp.record_types, inp.templates, inp.named_literals, inp.interp)

\* C3: the call returns an expression text or None for every type expression
\* and declaration model; it never raises.
C3_Total ==
  pc = "done" => res.kind \in {"str", "none"}

\* C6: applied to the name of a record shape f1:T1, ..., fn:Tn the synthesizer
\* returns { f1: e1, ..., fn: en }, each ei the synthesis of Ti or Unit.
C6_RecordRoundTrip ==
  (pc = "done" /\ DictHas(inp.record_types, Normalized(inp.ty))) =>
    LET fields == DictGet(inp.record_types, Normalized(inp.ty))
    IN res = Str("{ " \o Join([i \in 1..Len(fields) |->
                                 fields[i][1] \o ": " \o Placeholder(SynthOf(fields[i][2]))],
                              ", ") \o " }")

\* bracket depth of text before offset i
DepthAt(text, i) ==
  Cardinality({k \in 0..(i - 1) : Ch(text, k) \in {"(", "[", "{"}})
  - Cardinality({k \in 0..(i - 1) : Ch(text, k) \in {")", "]", "}"}})

\* no bracket closes before it opens, none stays open
Balanced(text) ==
  /\ DepthAt(text, Len(text)) = 0
  /\ \A i \in 0..Len(text) : DepthAt(text, i) >= 0

\* the offsets of the commas at depth zero
TopCommas(text) ==
  {i \in 0..(Len(text) - 1) : Ch(text, i) = "," /\ DepthAt(text, i) = 0}

\* the texts between the top-level commas, trimmed; a blank last one is none
TopParts(text) ==
  LET cs == TopCommas(text)
      n == Cardinality(cs)
      Nth(k) == CHOOSE c \in cs : Cardinality({d \in cs : d < c}) = k - 1
      Part(k) == Strip(Slice(text, IF k = 1 THEN 0 ELSE Nth(k - 1) + 1,
                                   IF k = n + 1 THEN Len(text) ELSE Nth(k)))
  IN IF Part(n + 1) = "" THEN [k \in 1..n |-> Part(k)]
     ELSE [k \in 1..(n + 1) |-> Part(k)]

\* which record shapes the field types of record a mention
RecordNames(rt) == {rt[i][1] : i \in 1..Len(rt)}
Mentions(rt, a) ==
  {b \in RecordNames(rt) :
     \E i \in 1..Len(DictGet(rt, a)) : Contains(DictGet(rt, a)[i][2], b)}
RECURSIVE MentionsWithin(_, _, _)
MentionsWithin(rt, S, n) ==
  IF n = 0 THEN S
  ELSE MentionsWithin(rt, S \cup UNION {Mentions(rt, b) : b \in S}, n - 1)
\* no record shape mentions itself, directly or through others
NoRecordCycle(rt) ==
  \A a \in RecordNames(rt) : a \notin MentionsWithin(rt, Mentions(rt, a), Len(rt))

\* The tuple literal the parts of a parenthesized type call for, and the two
\* worked cases.
TupleSplit ==
  LET ty == Normalized(inp.ty)
      inner == Slice(ty, 1, Len(ty) - 1)
      parts == TopParts(inner)
  IN /\ ( /\ Len(ty) >= 2
          /\ StartsWith(ty, "(")
          /\ EndsWith(ty, ")")
          /\ Balanced(inner)
          /\ Len(parts) >= 2 )
        => res = Str("(" \o Join([i \in 1..Len(parts) |->
                                    Placeholder(SynthOf(parts[i]))], ", ") \o ")")
     /\ (ty = "(Int, Text)" /\ RecordNames(inp.record_types) \cap {"Int", "Text"} = {})
        => res = Str("(1, \"x\")")
     /\ ( /\ ty = "(Int, (Bool, Text))"
          /\ RecordNames(inp.record_types) \cap {"Int", "Bool", "Text"} = {} )
        => res = Str("(1, (True, \"x\"))")

\* C7: a parenthesized type expression with at least two components yields a
\* tuple literal with one component per top-level part (split only at commas
\* at depth zero), each the synthesis of that part or Unit; (Int, Text) gives
\* (1, "x") and (Int, (Bool, Text)) gives (1, (True, "x")).
C7_TupleSplitting == pc = "done" => TupleSplit

\* The same over the declaration models in which no record shape mentions
\* itself: there the splitting is as C7 states.
C7_AcyclicTupleSplitting ==
  (pc = "done" /\ NoRecordCycle(inp.record_types)) => TupleSplit

\* a nested tuple was synthesized, with a record shape as one component
C7_Witness ==
  /\ pc = "done"
  /\ inp.ty = "(Point, (Bool, Text))"
  /\ res = Str("({ x: 1, y: 1 }, (True, \"x\"))")

\* The rules in their order: whether rule k applies to a normalized type.
RuleApplies(k, ty, rt) ==
  CASE k = 1 -> DictHas(rt, ty)
    [] k = 2 -> ty \in {"Int", "Float", "Bool", "Text", "Char", "Unit", "Bytes"}
    [] k = 3 -> StartsWith(ty, "Option ")
    [] k = 4 -> StartsWith(ty, "List ")
    [] k = 5 -> /\ StartsWith(ty, "(")
                /\ EndsWith(ty, ")")
                /\ Len(_split_top_level_commas(Strip(Slice(ty, 1, Len(ty) - 1)))) >= 2
    [] k = 6 -> StartsWith(ty, "Map ")
    [] k = 7 -> StartsWith(ty, "Set ")
    [] k = 8 -> ty = "Delta"
    [] OTHER -> TRUE

\* the literal of the components' syntheses, each with its label
Literal(open, tys, labels, close) ==
  Str(open \o Join([i \in 1..Len(tys) |-> labels[i] \o Placeholder(SynthOf(tys[i]))],
                   ", ") \o close)

\* The result rule k gives.
RuleResult(k, ty) ==
  CASE k = 1 -> LET fields == DictGet(inp.record_types, ty)
                IN Literal("{ ", [i \in 1..Len(fields) |-> fields[i][2]],
                           [i \in 1..Len(fields) |-> fields[i][1] \o ": "], " }")
    [] k = 2 -> Str(CASE ty = "Int" -> "1" [] ty = "Float" -> "1.0"
                      [] ty = "Bool" -> "True" [] ty = "Text" -> "\"x\""
                      [] ty = "Char" -> "'x'" [] ty = "Unit" -> "Unit"
                      [] OTHER -> "bytes.empty")
    [] k = 3 -> Str("None")
    [] k = 4 -> Str("[]")
    [] k = 5 -> LET items == _split_top_level_commas(Strip(Slice(ty, 1, Len(ty) - 1)))
                IN Literal("(", items, [i \in 1..Len(items) |-> ""], ")")
    [] k = 6 -> Str("Map.insert \"a\" 1 Map.empty")
    [] k = 7 -> Str("Set.insert 1 Set.empty")
    [] k = 8 -> IF inp.templates # <<>>
                THEN Str("2" \o SuffixOf(inp.templates[1]))
                ELSE IF inp.named_literals # <<>> THEN Str(inp.named_literals[1])
                ELSE None
    [] OTHER -> None

\* the result is that of the first rule that applies
FirstRuleWins ==
  LET ty == Normalized(inp.ty)
      first == MinOf({k \in 1..9 : RuleApplies(k, ty, inp.record_types)})
  IN res = RuleResult(first, ty)

\* C9: the result is that of the first rule, in the order record name,
\* primitive, Option, List, tuple, Map, Set, Delta, none, that applies: a
\* literal of the components' syntheses for the record and tuple rules, the
\* rule's text or None for the others.
C9_RulePriority == pc = "done" => FirstRuleWins

\* The same over the declaration models in which no record shape mentions
\* itself: there the first rule that applies gives the result.
C9_AcyclicRulePriority ==
  (pc = "done" /\ NoRecordCycle(inp.record_types)) => FirstRuleWins

\* a record shape named like a primitive was synthesized as a record
C9_Witness ==
  /\ pc = "done"
  /\ inp.ty = "Int"
  /\ DictHas(inp.record_types, "Int")
  /\ res = Str("{ v: \"x\" }")

-----------------------------------------------------------------------------
(* The extractor on its own (specification SpecExtract): the two parses main  *)
(* makes of a file text.                                                      *)

\* how many pieces a generated file text is made of
MaxChunks == 5

Chunks ==
  { "MODULE_NAME: &str = \"a.b\";\n",
    "MODULE_NAME:\t &str=\r\"",
    SourceMarker,
    SourceEnd,
    "x\r\n" }

RECURSIVE TextsOf(_)
TextsOf(n) ==
  IF n = 0 THEN {""} ELSE {""} \cup {c \o x : c \in Chunks, x \in TextsOf(n - 1)}

InitExtract ==
  /\ inp \in TextsOf(MaxChunks)
  /\ pc = "ready"
  /\ res = [ok |-> FALSE, err |-> "", mod |-> "", aivi_src |-> ""]
  /\ dir = NoDir
  /\ tree = <<>>
  /\ tree0 = <<>>
  /\ tree1 = <<>>
  /\ run = 1
  /\ queue = <<>>
  /\ ctx = NoCtx
  /\ todo = <<>>
  /\ doms = <<>>
  /\ generated = 0
  /\ stdout = <<>>
  /\ err = ""
  /\ ev = NoEv
  /\ written = <<>>

\* the parses of one file text
Extract ==
  /\ pc = "ready"
  /\ res' = ReadModule(inp)
  /\ pc' = "done"
  /\ UNCHANGED <<dir, tree, tree0, tree1, run, queue, ctx, todo, doms, generated,
                 stdout, err, ev, inp, written>>

NextExtract == Extract

SpecExtract == InitExtract /\ [][NextExtract]_vars

\* text[a:b] is whitespace only
Blank(text, a, b) == \A k \in a..(b - 1) : Ch(text, k) \in Space

\* A module-name marker: MODULE_NAME: &str = "name" with optional whitespace
\* around &str and =, and a non-empty name of characters other than quotes.
HasModuleNameMarker(text) ==
  \E p \in 0..Len(text) : \E a \in (p + 12)..Len(text) :
    /\ StartsAt(text, p, "MODULE_NAME:")
    /\ Blank(text, p + 12, a)
    /\ StartsAt(text, a, "&str")
    /\ \E b \in (a + 4)..Len(text) :
         /\ Blank(text, a + 4, b)
         /\ StartsAt(text, b, "=")
         /\ \E c \in (b + 1)..Len(text) :
              /\ Blank(text, b + 1, c)
              /\ StartsAt(text, c, "\"")
              /\ \E d \in (c + 2)..(Len(text) - 1) :
                   /\ Ch(text, d) = "\""
                   /\ \A k \in (c + 1)..(d - 1) : Ch(text, k) # "\""

\* the offsets just past an open marker, and those of the closing delimiters
OpenEnds(text) ==
  {i + Len(SourceMarker) : i \in {j \in 0..Len(text) : StartsAt(text, j, SourceMarker)}}
Closers(text) == {j \in 0..Len(text) : StartsAt(text, j, SourceEnd)}

\* C10: of the text of a file as it is read (line ends \r\n and \r read as
\* \n), extraction fails with missing module name when no module-name marker
\* is present; else with missing source when there is no open marker; else
\* with missing terminator when no closing delimiter follows the open marker;
\* else it returns the text strictly between the open marker and the first
\* closing delimiter after it.
C10_ExtractionOutcomes ==
  pc = "done" =>
    LET text == read_text(inp)
        from == MinOf(OpenEnds(text))
        after == {j \in Closers(text) : j >= from}
    IN IF ~HasModuleNameMarker(text)
       THEN ~res.ok /\ res.err = "missing MODULE_NAME"
       ELSE IF OpenEnds(text) = {}
       THEN ~res.ok /\ res.err = "missing SOURCE marker"
       ELSE IF after = {}
       THEN ~res.ok /\ res.err = "missing SOURCE terminator"
       ELSE res.ok /\ res.aivi_src = Slice(text, from, MinOf(after))

\* a source was extracted from a text with a closing delimiter before the
\* open marker as well
C10_Witness ==
  /\ pc = "done"
  /\ res.ok
  /\ res.aivi_src = "x\n"
  /\ \E j \in Closers(inp) : j < MinOf(OpenEnds(inp))

-----------------------------------------------------------------------------
(* The parsers on their own (specification SpecParse): a parser applied to a  *)
(* text.                                                                      *)

\* how many lines a generated source has
MaxLines == 4

DomainLines ==
  { "domain D over Int = {",
    "  1ms = Millis 1",
    "  sub = {",
    "}",
    "}}",
    "zero = Zero" }

RECURSIVE LinesOf(_, _)
LinesOf(pool, n) ==
  IF n = 0 THEN {""}
  ELSE {""} \cup {l \o "\n" \o x : l \in pool, x \in LinesOf(pool, n - 1)}

\* how many fields a generated record declaration has
MaxFields == 2

RecordFields ==
  { "x: Int",
    "p: (Int, Text)",
    "m : Map Text (List Int)",
    "r: { a: Int, b: Bool }",
    "l: [Int, Int]" }

RECURSIVE FieldLists(_)
FieldLists(n) ==
  IF n = 1 THEN RecordFields
  ELSE RecordFields \cup {f \o ", " \o x : f \in RecordFields, x \in FieldLists(n - 1)}

\* single-line record declarations, in the two styles the parser's comment
\* names, and an empty one
RecordLines ==
  {"E = {}\n"} \cup
  {head \o " = { " \o fs \o " }\n" : head \in {"Url", "Table A"}, fs \in FieldLists(MaxFields)}

\* how long a generated segment is
MaxLen == 4

SegmentChars == {"a", "B", "1", "_", "-", " ", "."}

RECURSIVE Segments(_)
Segments(n) ==
  IF n = 0 THEN {""} ELSE {""} \cup {c \o x : c \in SegmentChars, x \in Segments(n - 1)}

ParseInputs ==
  [fn : {"parse_domain_defs"}, arg : LinesOf(DomainLines, MaxLines)]
  \cup [fn : {"parse_record_type_aliases"}, arg : RecordLines]
  \cup [fn : {"sanitize_segment"}, arg : Segments(MaxLen)]

InitParse ==
  /\ inp \in ParseInputs
  /\ pc = "ready"
  /\ res = None
  /\ dir = NoDir
  /\ tree = <<>>
  /\ tree0 = <<>>
  /\ tree1 = <<>>
  /\ run = 1
  /\ queue = <<>>
  /\ ctx = NoCtx
  /\ todo = <<>>
  /\ doms = <<>>
  /\ generated = 0
  /\ stdout = <<>>
  /\ err = ""
  /\ ev = NoEv
  /\ written = <<>>

\* a call of parse_domain_defs, with the depth each block scan stops at
ParseDomains ==
  /\ pc = "ready"
  /\ inp.fn = "parse_domain_defs"
  /\ res' = [domains |-> parse_domain_defs(inp.arg),
             ends |-> BlockEnds(SplitLines(inp.arg), 0, <<>>)]
  /\ pc' = "done"
  /\ UNCHANGED <<dir, tree, tree0, tree1, run, queue, ctx, todo, doms, generated,
                 stdout, err, ev, inp, written>>

\* a call of parse_record_type_aliases
ParseRecords ==
  /\ pc = "ready"
  /\ inp.fn = "parse_record_type_aliases"
  /\ res' = parse_record_type_aliases(inp.arg)
  /\ pc' = "done"
  /\ UNCHANGED <<dir, tree, tree0, tree1, run, queue, ctx, todo, doms, generated,
                 stdout, err, ev, inp, written>>

\* a call of sanitize_segment, and a second call on its result
Sanitize ==
  /\ pc = "ready"
  /\ inp.fn = "sanitize_segment"
  /\ res' = [out |-> sanitize_segment(inp.arg),
             again |-> sanitize_segment(sanitize_segment(inp.arg))]
  /\ pc' = "done"
  /\ UNCHANGED <<dir, tree, tree0, tree1, run, queue, ctx, todo, doms, generated,
                 stdout, err, ev, inp, written>>

NextParse == ParseDomains \/ ParseRecords \/ Sanitize

SpecParse == InitParse /\ [][NextParse]_vars

\* C13: after a line opening a domain block the scanner follows the brace
\* depth line by line and ends the block only at a line after which the depth
\* is exactly zero: for every input no block ends at another depth.
C13_BlockEndsAtDepthZero ==
  (pc = "done" /\ inp.fn = "parse_domain_defs") =>
    \A k \in 1..Len(res.ends) : res.ends[k].brace = 0

\* The fields a single-line record declaration declares: the brace body cut
\* at the commas at depth zero, each part cut at its first colon, both sides
\* trimmed.
DeclaredFields(line) ==
  LET open == Find(line, "{", 0)
      close == MaxOf({i \in 0..(Len(line) - 1) : Ch(line, i) = "}"})
      parts == TopParts(Slice(line, open + 1, close))
      Colon(part) == Find(part, ":", 0)
  IN [k \in 1..Len(parts) |->
        <<Strip(Slice(parts[k], 0, Colon(parts[k]))),
          Strip(From(parts[k], Colon(parts[k]) + 1))>>]

\* C14: the brace body of a single-line record declaration is split on
\* top-level commas only, then each part on its first colon: every declared
\* field is recorded once, with its complete, trimmed type-expression text.
C14_RecordFieldsTopLevel ==
  (pc = "done" /\ inp.fn = "parse_record_type_aliases") =>
    LET fields == DeclaredFields(inp.arg)
        name == SplitWs(inp.arg)[1]
    IN (\A j, k \in 1..Len(fields) : fields[j][1] = fields[k][1] => j = k)
         => res = <<<<name, fields>>>>

\* the letters and digits of a text, in order
RECURSIVE Alnum(_)
Alnum(s) ==
  IF s = "" THEN ""
  ELSE (IF Ch(s, 0) \in Letter \cup Digit THEN Ch(s, 0) ELSE "") \o Alnum(From(s, 1))

\* C16: for every input the result of sanitize_segment is non-empty, holds
\* only ASCII letters, digits and underscores, does not start with a digit,
\* has no two consecutive underscores, keeps the input's letters in their
\* case (and its digits) in order, and is a fixed point of the function.
C16_SanitizedSegment ==
  (pc = "done" /\ inp.fn = "sanitize_segment") =>
    LET out == res.out
        kept == Alnum(inp.arg)
    IN /\ out # ""
       /\ \A i \in 0..(Len(out) - 1) : Ch(out, i) \in Letter \cup Digit \cup {"_"}
       /\ Ch(out, 0) \notin Digit
       /\ \A i \in 0..(Len(out) - 2) : ~(Ch(out, i) = "_" /\ Ch(out, i + 1) = "_")
       /\ IF kept = "" THEN out = "x"
          ELSE IF Ch(kept, 0) \in Digit THEN Alnum(out) = "n" \o kept
          ELSE Alnum(out) = kept
       /\ res.again = out

\* a segment with a leading digit, a hyphen next to an underscore and a
\* capital has been sanitized
C16_Witness ==
  /\ pc = "done"
  /\ inp.fn = "sanitize_segment"
  /\ inp.arg = "1-_B"
  /\ res.out = "n_1_B"

====
